---- MODULE Spec2Model ----
(***************************************************************************)
(* Model of the google-search MCP server (src/index.ts): the call-tool     *)
(* handler, argument verification, the rate limiter check, the outbound    *)
(* query construction and the rendering of the provider's response.        *)
(***************************************************************************)
EXTENDS Integers, Sequences, FiniteSets, TLC

(***************************************************************************)
(* Bounds of the model.                                                    *)
(***************************************************************************)
\* removeTokens() promises that may be pending (blocked) at one time
MaxWaiting == 2
\* longest item list a provider response carries
MaxItems == 2

(***************************************************************************)
(* Program constants.                                                      *)
(***************************************************************************)
perMinute == 10
DefaultCount == 10
GOOGLE_API_KEY == "KEY"
GOOGLE_SEARCH_ENGINE_ID == "CX"

(***************************************************************************)
(* JavaScript values as they arrive in a tool call's arguments.            *)
(***************************************************************************)
Undef == [t |-> "undefined"]
Null == [t |-> "null"]
Str(s) == [t |-> "string", v |-> s]
Num(n) == [t |-> "number", v |-> n]

ArgKeys ==
  {"query", "num_results", "date_restrict", "language", "country", "safe_search"}

\* an arguments object: every key of the schema, Undef where the key is absent
Obj(f) == [t |-> "object", f |-> f]
NoFields == [k \in ArgKeys |-> Undef]

Get(args, k) == IF args.t = "object" THEN args.f[k] ELSE Undef

\* JavaScript truthiness: `if (value)`, `!args`, `language && ...`
Truthy(x) ==
  CASE x.t = "undefined" -> FALSE
    [] x.t = "null" -> FALSE
    [] x.t = "string" -> x.v # ""
    [] x.t = "number" -> x.v # 0
    [] OTHER -> TRUE

\* String(x) and template-literal interpolation
StringOf(x) ==
  CASE x.t = "string" -> x.v
    [] x.t = "number" -> ToString(x.v)
    [] x.t = "null" -> "null"
    [] x.t = "undefined" -> "undefined"
    [] OTHER -> "[object Object]"

(***************************************************************************)
(* verifyGoogleSearchArgs: passes iff args is a non-null object whose      *)
(* query is a string (TRUE: returns, FALSE: throws).                       *)
(***************************************************************************)
verifyGoogleSearchArgsLoose(args) ==
  /\ args.t = "object"
  /\ Get(args, "query").t # "undefined"

verifyGoogleSearchArgs(args) ==
  /\ args.t = "object"
  /\ Get(args, "query").t = "string"

(***************************************************************************)
(* URLSearchParams: an ordered list of <<name, value>> pairs.              *)
(***************************************************************************)
SearchParamsSet(params, key, value) ==
  IF \E i \in 1..Len(params) : params[i][1] = key
  THEN [i \in 1..Len(params) |->
          IF params[i][1] = key THEN <<key, value>> ELSE params[i]]
  ELSE Append(params, <<key, value>>)

\* const { query, num_results: count = 10 } = args
CountOrFalsyDefault(args) ==
  IF Truthy(Get(args, "num_results"))
  THEN Get(args, "num_results") ELSE Num(DefaultCount)

CountOf(args) ==
  IF Get(args, "num_results").t = "undefined"
  THEN Num(DefaultCount) ELSE Get(args, "num_results")

\* { key: "lr", value: language && `lang_${language}` }
LanguageValueRaw(language) == language

LanguageValue(language) ==
  IF Truthy(language) THEN Str("lang_" \o StringOf(language)) ELSE language

\* the params array of performGoogleSearch, in its order
OptionalParams(dateRestrict, language, country, safeSearch) ==
  << <<"dateRestrict", dateRestrict>>,
     <<"lr", LanguageValue(language)>>,
     <<"gl", country>>,
     <<"safe", safeSearch>> >>

\* params.forEach(({key, value}) => { if (value) url.searchParams.set(key, value) })
RECURSIVE SetEach(_, _)
SetEach(params, opts) ==
  IF opts = <<>> THEN params
  ELSE LET o == Head(opts) IN
       SetEach(IF Truthy(o[2])
               THEN SearchParamsSet(params, o[1], StringOf(o[2]))
               ELSE params,
               Tail(opts))

BuildSearchParams(query, count, dateRestrict, language, country, safeSearch) ==
  LET p1 == SearchParamsSet(<<>>, "key", GOOGLE_API_KEY)
      p2 == SearchParamsSet(p1, "cx", GOOGLE_SEARCH_ENGINE_ID)
      p3 == SearchParamsSet(p2, "q", StringOf(query))
      p4 == SearchParamsSet(p3, "num", StringOf(count))
  IN SetEach(p4, OptionalParams(dateRestrict, language, country, safeSearch))

(***************************************************************************)
(* Rendering of the provider's JSON body.                                  *)
(***************************************************************************)
\* `Title: ${item.title}\nURL: ${item.link}\nDescription: ${item.snippet}`
ItemBlock(item) ==
  "Title: " \o item.title \o "\nURL: " \o item.link
    \o "\nDescription: " \o item.snippet

\* Array.prototype.join
RECURSIVE Join(_, _)
Join(strs, sep) ==
  IF strs = <<>> THEN ""
  ELSE IF Len(strs) = 1 THEN strs[1]
  ELSE strs[1] \o sep \o Join(Tail(strs), sep)

\* data: [hasItems |-> BOOLEAN, items |-> sequence of items]
FormatResultsTight(data) ==
  IF ~data.hasItems \/ Len(data.items) = 0 THEN "No results found"
  ELSE "Found " \o ToString(Len(data.items)) \o " results:\n\n"
       \o Join([i \in 1..Len(data.items) |-> ItemBlock(data.items[i])], "\n")

FormatResults(data) ==
  IF ~data.hasItems \/ Len(data.items) = 0 THEN "No results found"
  ELSE "Found " \o ToString(Len(data.items)) \o " results:\n\n"
       \o Join([i \in 1..Len(data.items) |-> ItemBlock(data.items[i])], "\n\n")

(***************************************************************************)
(* State.                                                                  *)
(*   tokens, waiting   the minuteLimiter: tokens left in the current       *)
(*                     interval, removeTokens() promises still pending     *)
(*   unhandled         promise rejections nobody handles                   *)
(*   slots             the call-tool handler invocations in progress       *)
(*   httpThisWindow    fetch() calls issued in the current interval        *)
(*   admitted          removeTokens() promises resolved in the interval    *)
(* A slot also records what its invocation has done so far: whether       *)
(* checkRateLimit() was called (limited), whether a token was there when   *)
(* the call arrived (hadToken), whether removeTokens resolved at once      *)
(* (granted), the tokens it took (took), the query it sent (params), the   *)
(* provider's answer (http) and where it threw (threwAt).                  *)
(***************************************************************************)
VARIABLES tokens, waiting, unhandled, slots, httpThisWindow, admitted

vars == <<tokens, waiting, unhandled, slots, httpThisWindow, admitted>>

Slots == {"c1", "c2"}

NoHttp == [kind |-> "none"]
NoResult == [content |-> <<>>, isError |-> FALSE]

IdleSlot ==
  [pc |-> "idle", name |-> "", args |-> Undef, limited |-> FALSE,
   hadToken |-> FALSE, granted |-> FALSE, took |-> 0, params |-> <<>>,
   httpIssued |-> FALSE, http |-> NoHttp, jsonCalled |-> FALSE,
   threwAt |-> "none", result |-> NoResult]

(***************************************************************************)
(* The rate limiter: new RateLimiter({tokensPerInterval: 10, interval:     *)
(* "minute"}).  removeTokens(count) takes the tokens when the interval has *)
(* them and resolves with the tokens remaining; otherwise the promise      *)
(* stays pending until a later interval has them.                          *)
(***************************************************************************)
RemoveTokens(count) ==
  IF count <= tokens
  THEN [granted |-> TRUE, tokens |-> tokens - count, waiting |-> waiting,
        remaining |-> tokens - count]
  ELSE [granted |-> FALSE, tokens |-> tokens, waiting |-> waiting + 1,
        remaining |-> 0]

NoRate ==
  [granted |-> FALSE, tokens |-> tokens, waiting |-> waiting,
   rejected |-> FALSE]

\* the test of checkRateLimit, `remainingTokens < 0`
RateLimitExceeded(remainingTokens) == remainingTokens < 0

\* async function checkRateLimit(): rejected iff removeTokens resolved with
\* a negative count
checkRateLimit ==
  LET r == RemoveTokens(1) IN
  [granted |-> r.granted, tokens |-> r.tokens, waiting |-> r.waiting,
   rejected |-> r.granted /\ RateLimitExceeded(r.remaining)]

(***************************************************************************)
(* Outcomes of one synchronous stretch of the handler.                     *)
(***************************************************************************)
Throw(at, message, limited, rate) ==
  [step |-> "throw", at |-> at, message |-> message, text |-> "",
   isError |-> TRUE, limited |-> limited, rate |-> rate, params |-> <<>>]

Return(text, isError) ==
  [step |-> "return", at |-> "none", message |-> "", text |-> text,
   isError |-> isError, limited |-> FALSE, rate |-> NoRate, params |-> <<>>]

Await(what, limited, rate, params) ==
  [step |-> what, at |-> "none", message |-> "", text |-> "",
   isError |-> FALSE, limited |-> limited, rate |-> rate, params |-> params]

(***************************************************************************)
(* performGoogleSearch up to `await fetch(...)`.  checkRateLimit() is      *)
(* called and its promise dropped: the function goes on to build the URL   *)
(* and to issue the request whatever the limiter answers.                  *)
(***************************************************************************)
performGoogleSearch(query, count, dateRestrict, language, country, safeSearch) ==
  LET rate == checkRateLimit IN
  IF GOOGLE_API_KEY = "" \/ GOOGLE_SEARCH_ENGINE_ID = ""
  THEN Throw("config", "Missing required Google API configuration", TRUE, rate)
  ELSE Await("fetch", TRUE, rate,
             BuildSearchParams(query, count, dateRestrict, language,
                               country, safeSearch))

\* the handler with the search started before the arguments are verified
HandlerStartUnverified(name, args) ==
  IF ~Truthy(args)
  THEN Throw("validation", "No arguments provided", FALSE, NoRate)
  ELSE IF name = "google_search"
  THEN LET search ==
             performGoogleSearch(Get(args, "query"), CountOf(args),
               Get(args, "date_restrict"), Get(args, "language"),
               Get(args, "country"), Get(args, "safe_search"))
       IN IF ~verifyGoogleSearchArgs(args)
          THEN Throw("validation", "Invalid arguments for Google search",
                     TRUE, search.rate)
          ELSE search
  ELSE Return("Unknown tool: " \o name, TRUE)

(***************************************************************************)
(* The CallToolRequestSchema handler up to its first await.                *)
(***************************************************************************)
HandlerStart(name, args) ==
  IF ~Truthy(args)
  THEN Throw("validation", "No arguments provided", FALSE, NoRate)
  ELSE IF name = "google_search"
  THEN IF ~verifyGoogleSearchArgs(args)
       THEN Throw("validation", "Invalid arguments for Google search",
                  FALSE, NoRate)
       ELSE performGoogleSearch(Get(args, "query"), CountOf(args),
              Get(args, "date_restrict"), Get(args, "language"),
              Get(args, "country"), Get(args, "safe_search"))
  ELSE Return("Unknown tool: " \o name, TRUE)

\* performGoogleSearch from the settling of fetch() to `await response.json()`
AfterFetchIgnoreStatus(resp) ==
  IF resp.kind = "networkError"
  THEN Throw("transport", resp.message, FALSE, NoRate)
  ELSE Await("json", FALSE, NoRate, <<>>)

AfterFetch(resp) ==
  IF resp.kind = "networkError"
  THEN Throw("transport", resp.message, FALSE, NoRate)
  ELSE IF ~resp.ok
  THEN Throw("transport", "Google Search API error: " \o resp.statusText,
             FALSE, NoRate)
  ELSE Await("json", FALSE, NoRate, <<>>)

\* performGoogleSearch from the settling of response.json() to its return,
\* and the handler's `isError: false`
AfterJson(resp) ==
  IF resp.body = "syntaxError"
  THEN Throw("parsing", "Unexpected token < in JSON at position 0",
             FALSE, NoRate)
  ELSE Return(FormatResults(resp.data), FALSE)

(***************************************************************************)
(* The handler's try/catch and its two return statements.                  *)
(***************************************************************************)
Respond(text, isError) ==
  [content |-> << [type |-> "text", text |-> text] >>, isError |-> isError]

CatchBare(message) == Respond(message, TRUE)

Catch(message) == Respond("Error: " \o message, TRUE)

\* a handler whose catch misses what is thrown after an await
SettleSyncOnly(out) ==
  IF out.step = "throw"
  THEN IF out.at \in {"transport", "parsing"}
       THEN [pc |-> "rejected", result |-> NoResult]
       ELSE [pc |-> "responded", result |-> Catch(out.message)]
  ELSE IF out.step = "return"
  THEN [pc |-> "responded", result |-> Respond(out.text, out.isError)]
  ELSE [pc |-> out.step, result |-> NoResult]

Settle(out) ==
  IF out.step = "throw"
  THEN [pc |-> "responded", result |-> Catch(out.message)]
  ELSE IF out.step = "return"
  THEN [pc |-> "responded", result |-> Respond(out.text, out.isError)]
  ELSE [pc |-> out.step, result |-> NoResult]

(***************************************************************************)
(* What the environment sends: tool calls and provider responses.          *)
(***************************************************************************)
ToolNames == {"google_search", "other_tool"}

Payloads ==
  { Undef,
    Obj(NoFields),
    Obj([NoFields EXCEPT !["query"] = Num(42)]),
    Obj([NoFields EXCEPT !["query"] = Str("q")]),
    Obj([NoFields EXCEPT !["query"] = Str("q"), !["language"] = Str("fr"),
                         !["num_results"] = Num(0)]) }

CountValues == {Undef, Null, Num(0), Num(-1), Num(5), Num(11)}
OptValues(s) == {Undef, Null, Str(""), Str(s)}

WidePayloads ==
  { Obj([NoFields EXCEPT !["query"] = Str("q"), !["num_results"] = n,
                         !["date_restrict"] = d, !["language"] = l,
                         !["country"] = g, !["safe_search"] = f]) :
      n \in CountValues, d \in OptValues("d1"), l \in OptValues("fr"),
      g \in OptValues("us"), f \in OptValues("high") }

ItemPool ==
  { [title |-> "A", link |-> "u1", snippet |-> "s1"],
    [title |-> "B", link |-> "u2", snippet |-> "s2"] }

ItemSeqs == UNION { [1..n -> ItemPool] : n \in 0..MaxItems }

NoItems == [hasItems |-> FALSE, items |-> <<>>]
Bodies == {NoItems} \cup { [hasItems |-> TRUE, items |-> q] : q \in ItemSeqs }
OneItem == [hasItems |-> TRUE, items |-> << [title |-> "A", link |-> "u1", snippet |-> "s1"] >>]

NetworkError == [kind |-> "networkError", message |-> "fetch failed"]
HttpOk(data) ==
  [kind |-> "response", ok |-> TRUE, statusText |-> "OK", body |-> "json",
   data |-> data]
HttpFail(statusText, data) ==
  [kind |-> "response", ok |-> FALSE, statusText |-> statusText,
   body |-> "json", data |-> data]
HttpBadJson ==
  [kind |-> "response", ok |-> TRUE, statusText |-> "OK",
   body |-> "syntaxError", data |-> NoItems]

Responses ==
  { NetworkError, HttpFail("Forbidden", OneItem), HttpOk(NoItems),
    HttpOk(OneItem), HttpBadJson }

WideResponses ==
  { HttpOk(d) : d \in Bodies } \cup { HttpFail("Too Many Requests", OneItem) }

(***************************************************************************)
(* Actions.                                                                *)
(***************************************************************************)
Init ==
  /\ tokens = perMinute
  /\ waiting = 0
  /\ unhandled = 0
  /\ slots = [c \in Slots |-> IdleSlot]
  /\ httpThisWindow = 0
  /\ admitted = 0

\* a tools/call request arrives: the handler runs to its first await, or to
\* its response when it does not reach one
CallTool(c, name, args) ==
  /\ slots[c].pc = "idle"
  /\ tokens > 0 \/ waiting < MaxWaiting
  /\ LET h == HandlerStart(name, args)
         s == Settle(h)
     IN /\ tokens' = h.rate.tokens
        /\ waiting' = h.rate.waiting
        /\ unhandled' = unhandled + (IF h.rate.rejected THEN 1 ELSE 0)
        /\ admitted' = admitted + (IF h.limited /\ h.rate.granted THEN 1 ELSE 0)
        /\ httpThisWindow' = httpThisWindow + (IF h.step = "fetch" THEN 1 ELSE 0)
        /\ slots' = [slots EXCEPT ![c] =
              [pc |-> s.pc, name |-> name, args |-> args,
               limited |-> h.limited, hadToken |-> tokens > 0,
               granted |-> h.rate.granted, took |-> tokens - h.rate.tokens,
               params |-> h.params,
               httpIssued |-> h.step = "fetch", http |-> NoHttp,
               jsonCalled |-> FALSE, threwAt |-> h.at, result |-> s.result]]

\* fetch() settles
FetchResolve(c, resp) ==
  /\ slots[c].pc = "fetch"
  /\ LET h == AfterFetch(resp)
         s == Settle(h)
     IN slots' = [slots EXCEPT ![c] =
          [@ EXCEPT !.pc = s.pc, !.http = resp, !.jsonCalled = h.step = "json",
                    !.threwAt = h.at, !.result = s.result]]
  /\ UNCHANGED <<tokens, waiting, unhandled, httpThisWindow, admitted>>

\* response.json() settles
JsonResolve(c) ==
  /\ slots[c].pc = "json"
  /\ LET h == AfterJson(slots[c].http)
         s == Settle(h)
     IN slots' = [slots EXCEPT ![c] =
          [@ EXCEPT !.pc = s.pc, !.threwAt = h.at, !.result = s.result]]
  /\ UNCHANGED <<tokens, waiting, unhandled, httpThisWindow, admitted>>

\* the response is sent; the invocation is over
Deliver(c) ==
  /\ slots[c].pc = "responded"
  /\ slots' = [slots EXCEPT ![c] = IdleSlot]
  /\ UNCHANGED <<tokens, waiting, unhandled, httpThisWindow, admitted>>

\* a minute has passed: the limiter's interval starts again
NewInterval ==
  /\ tokens' = perMinute
  /\ httpThisWindow' = 0
  /\ admitted' = 0
  /\ UNCHANGED <<waiting, unhandled, slots>>

\* a pending removeTokens(1) gets its token; checkRateLimit resumes
WaiterResume ==
  /\ waiting > 0
  /\ tokens > 0
  /\ tokens' = tokens - 1
  /\ waiting' = waiting - 1
  /\ admitted' = admitted + 1
  /\ unhandled' = unhandled + (IF RateLimitExceeded(tokens - 1) THEN 1 ELSE 0)
  /\ UNCHANGED <<slots, httpThisWindow>>

Next ==
  \/ \E c \in Slots, name \in ToolNames, args \in Payloads : CallTool(c, name, args)
  \/ \E c \in Slots, resp \in Responses : FetchResolve(c, resp)
  \/ \E c \in Slots : JsonResolve(c)
  \/ \E c \in Slots : Deliver(c)
  \/ NewInterval
  \/ WaiterResume

Spec == Init /\ [][Next]_vars

(***************************************************************************)
(* One search at a time, each in a fresh interval, over every combination  *)
(* of the optional arguments and every item list up to MaxItems.           *)
(***************************************************************************)
SearchNext ==
  \/ /\ tokens = perMinute
     /\ \E args \in WidePayloads : CallTool("c1", "google_search", args)
  \/ \E resp \in WideResponses : FetchResolve("c1", resp)
  \/ JsonResolve("c1")
  \/ Deliver("c1")
  \/ NewInterval

SearchSpec == Init /\ [][SearchNext]_vars

(***************************************************************************)
(* Vocabulary of the properties.                                           *)
(***************************************************************************)
StatusTexts == {"Forbidden", "Too Many Requests"}

ErrorMessages ==
  { "No arguments provided", "Invalid arguments for Google search",
    "Rate limit exceeded", "Missing required Google API configuration",
    "fetch failed", "Unexpected token < in JSON at position 0" }
  \cup { "Google Search API error: " \o st : st \in StatusTexts }

\* the text is `Error: <message>`
HasErrorForm(text) == \E m \in ErrorMessages : text = "Error: " \o m

OneTextBlock(r) == Len(r.content) = 1 /\ r.content[1].type = "text"
TextOf(r) == r.content[1].text

\* reading a query: which names it carries, and the value under a name
HasParam(params, key) == \E i \in 1..Len(params) : params[i][1] = key

ParamValue(params, key) ==
  LET i == CHOOSE j \in 1..Len(params) : params[j][1] = key IN params[i][2]

ParamNames(params) == [i \in 1..Len(params) |-> params[i][1]]

Started(c) == slots[c].pc # "idle"
Responded(c) == slots[c].pc = "responded"
IsSearch(c) == slots[c].name = "google_search"
QueryIsString(c) ==
  slots[c].args.t = "object" /\ slots[c].args.f["query"].t = "string"
ValidSearch(c) == Started(c) /\ IsSearch(c) /\ QueryIsString(c)
Arg(c, k) == slots[c].args.f[k]

(***************************************************************************)
(* C1: a valid google_search call that arrives when the limiter has no     *)
(* token left never issues the HTTP request, and its response is the       *)
(* error-flagged text "Error: Rate limit exceeded".                        *)
(***************************************************************************)
C1_ExhaustedCallIsRateLimited ==
  \A c \in Slots :
    (ValidSearch(c) /\ ~slots[c].hadToken) =>
      /\ ~slots[c].httpIssued
      /\ Responded(c) =>
           /\ slots[c].result.isError
           /\ OneTextBlock(slots[c].result)
           /\ TextOf(slots[c].result) = "Error: Rate limit exceeded"

(***************************************************************************)
(* C2: the HTTP requests started within one interval never exceed          *)
(* perMinute, and a call's request is issued only once the limiter has     *)
(* granted that call a token.                                              *)
(***************************************************************************)
C2_HttpWithinCeiling ==
  /\ httpThisWindow <= perMinute
  /\ \A c \in Slots : slots[c].httpIssued => slots[c].granted

(***************************************************************************)
(* C3: a google_search call with no arguments object, or whose query is    *)
(* missing or not a string, is answered with an error-flagged invalid-     *)
(* argument text and issues no HTTP request.                               *)
(***************************************************************************)
C3_InvalidArgsRejected ==
  \A c \in Slots :
    (Started(c) /\ IsSearch(c) /\ ~QueryIsString(c)) =>
      /\ Responded(c)
      /\ slots[c].result.isError
      /\ OneTextBlock(slots[c].result)
      /\ TextOf(slots[c].result) =
           (IF slots[c].args.t = "undefined"
            THEN "Error: No arguments provided"
            ELSE "Error: Invalid arguments for Google search")
      /\ ~slots[c].httpIssued
      /\ slots[c].params = <<>>
      /\ slots[c].http = NoHttp

C3_Witness ==
  \E c \in Slots :
    /\ Responded(c) /\ IsSearch(c)
    /\ slots[c].args.t = "object"
    /\ slots[c].args.f["query"].t = "number"

(***************************************************************************)
(* C4: every error thrown during a call (validation, rate limiting,        *)
(* transport, parsing) ends as an error-flagged `Error: <message>`         *)
(* response; the handler's promise never rejects and no promise rejection  *)
(* is left unhandled.                                                      *)
(***************************************************************************)
C4_ErrorsCaughtAtBoundary ==
  /\ unhandled = 0
  /\ \A c \in Slots :
       /\ slots[c].pc # "rejected"
       /\ slots[c].threwAt # "none" =>
            /\ Responded(c)
            /\ slots[c].result.isError
            /\ OneTextBlock(slots[c].result)
            /\ HasErrorForm(TextOf(slots[c].result))

C4_Witness ==
  /\ \E c \in Slots : slots[c].threwAt = "parsing" /\ Responded(c)
  /\ \E c \in Slots : slots[c].threwAt = "transport" /\ Responded(c)

(***************************************************************************)
(* C5: when the provider answers a valid, admitted call with a non-2xx     *)
(* status, the response is error-flagged, its text is `Error: Google       *)
(* Search API error: <statusText>`, the body is never parsed and no item   *)
(* is rendered.                                                            *)
(***************************************************************************)
C5_NonOkIsProviderError ==
  \A c \in Slots :
    (slots[c].http.kind = "response" /\ ~slots[c].http.ok) =>
      /\ Responded(c)
      /\ slots[c].result.isError
      /\ OneTextBlock(slots[c].result)
      /\ TextOf(slots[c].result) =
           "Error: Google Search API error: " \o slots[c].http.statusText
      /\ ~slots[c].jsonCalled

C5_Witness ==
  \E c \in Slots :
    /\ ValidSearch(c) /\ slots[c].granted /\ Responded(c)
    /\ slots[c].http.kind = "response" /\ ~slots[c].http.ok
    /\ slots[c].http.data.hasItems /\ Len(slots[c].http.data.items) > 0

(***************************************************************************)
(* C6 as stated: every response holds exactly one text block and a boolean *)
(* error flag, and whenever the flag is true the text is `Error:           *)
(* <message>`, for every tool name and every payload.                      *)
(***************************************************************************)
C6_ErrorTextForm ==
  \A c \in Slots :
    Responded(c) =>
      /\ OneTextBlock(slots[c].result)
      /\ slots[c].result.isError \in BOOLEAN
      /\ slots[c].result.isError => HasErrorForm(TextOf(slots[c].result))

(***************************************************************************)
(* C6 amended: every response holds exactly one text block and a boolean   *)
(* error flag; whenever the flag is true the text is `Error: <message>`,   *)
(* except for a call that names another tool than google_search and carries*)
(* an arguments object, whose text is `Unknown tool: <name>`.              *)
(***************************************************************************)
C6_ErrorTextFormOrUnknownTool ==
  \A c \in Slots :
    Responded(c) =>
      /\ OneTextBlock(slots[c].result)
      /\ slots[c].result.isError \in BOOLEAN
      /\ slots[c].result.isError =>
           IF ~IsSearch(c) /\ slots[c].args.t = "object"
           THEN TextOf(slots[c].result) = "Unknown tool: " \o slots[c].name
           ELSE HasErrorForm(TextOf(slots[c].result))

C6_Witness ==
  /\ \E c \in Slots :
       Responded(c) /\ ~IsSearch(c) /\ slots[c].args.t = "object"
  /\ \E c \in Slots :
       Responded(c) /\ IsSearch(c) /\ slots[c].result.isError

(***************************************************************************)
(* C7: the outbound query of a valid request carries key, cx, q and num,   *)
(* in that order, and nothing else when no optional argument is given;     *)
(* each of dateRestrict, lr, gl and safe is there iff its argument         *)
(* (date_restrict, language, country, safe_search) is present and truthy;  *)
(* lr is `lang_` followed by the language, the other three carry the       *)
(* argument's value unchanged.                                             *)
(***************************************************************************)
OptionalSources ==
  { <<"dateRestrict", "date_restrict">>, <<"lr", "language">>,
    <<"gl", "country">>, <<"safe", "safe_search">> }

IsGiven(x) == x.t = "string" /\ x.v # ""

C7_OptionalParamsMapped ==
  \A c \in Slots :
    slots[c].httpIssued =>
      LET p == slots[c].params IN
      /\ SubSeq(ParamNames(p), 1, 4) = <<"key", "cx", "q", "num">>
      /\ \A i, j \in 1..Len(p) : p[i][1] = p[j][1] => i = j
      /\ \A i \in 5..Len(p) : \E o \in OptionalSources : p[i][1] = o[1]
      /\ (\A o \in OptionalSources : Arg(c, o[2]).t = "undefined") => Len(p) = 4
      /\ \A o \in OptionalSources :
           /\ HasParam(p, o[1]) <=> IsGiven(Arg(c, o[2]))
           /\ HasParam(p, o[1]) =>
                ParamValue(p, o[1]) =
                  (IF o[1] = "lr" THEN "lang_" \o Arg(c, o[2]).v
                   ELSE Arg(c, o[2]).v)

C7_Witness ==
  \E c \in Slots :
    /\ slots[c].httpIssued
    /\ Arg(c, "language") = Str("fr")
    /\ Arg(c, "date_restrict") = Undef
    /\ Arg(c, "country") = Str("")
    /\ Arg(c, "safe_search") = Str("high")

(***************************************************************************)
(* C8: for a 2xx response the text is `No results found` when items is     *)
(* absent or empty, and otherwise `Found N results:`, a blank line, and    *)
(* one Title/URL/Description block per item in the provider's order, the   *)
(* blocks separated by blank lines; the response is not error-flagged, and *)
(* rendering the same body again gives the same text.                      *)
(***************************************************************************)
ExpectedBlock(item) ==
  Join(<< "Title: " \o item.title, "URL: " \o item.link,
          "Description: " \o item.snippet >>, "\n")

RECURSIVE ExpectedBlocks(_)
ExpectedBlocks(items) ==
  IF Len(items) = 1 THEN ExpectedBlock(items[1])
  ELSE ExpectedBlocks(SubSeq(items, 1, Len(items) - 1))
         \o "\n" \o "\n" \o ExpectedBlock(items[Len(items)])

ExpectedText(data) ==
  IF data.hasItems /\ data.items # <<>>
  THEN "Found " \o ToString(Len(data.items)) \o " results:" \o "\n" \o "\n"
         \o ExpectedBlocks(data.items)
  ELSE "No results found"

RenderedOk(c) ==
  /\ Responded(c)
  /\ slots[c].http.kind = "response"
  /\ slots[c].http.ok
  /\ slots[c].http.body = "json"

C8_RenderingIsFixed ==
  \A c \in Slots :
    RenderedOk(c) =>
      /\ ~slots[c].result.isError
      /\ OneTextBlock(slots[c].result)
      /\ TextOf(slots[c].result) = ExpectedText(slots[c].http.data)
      /\ slots[c].http.data = HttpOk(OneItem).data =>
           TextOf(slots[c].result) =
             "Found 1 results:\n\nTitle: A\nURL: u1\nDescription: s1"
      /\ FormatResults(slots[c].http.data) = TextOf(slots[c].result)

C8_Witness ==
  \E c \in Slots :
    /\ RenderedOk(c)
    /\ Len(slots[c].http.data.items) = 2
    /\ slots[c].http.data.items[1].title = "B"
    /\ slots[c].http.data.items[2].title = "A"

C10_TokenAccounting ==
  /\ tokens = perMinute - admitted
  /\ tokens >= 0
  /\ admitted <= perMinute
  /\ \A c \in Slots :
       Started(c) =>
         IF IsSearch(c) /\ QueryIsString(c)
         THEN /\ slots[c].limited
              /\ slots[c].granted = slots[c].hadToken
              /\ slots[c].took = (IF slots[c].hadToken THEN 1 ELSE 0)
         ELSE /\ ~slots[c].limited
              /\ ~slots[c].granted
              /\ slots[c].took = 0

C10_Witness ==
  /\ \A c \in Slots : slots[c].pc = "fetch" /\ slots[c].took = 1
  /\ admitted = 2
  /\ tokens = perMinute - 2

====
